---------------------------- MODULE Spec2Model ----------------------------
(***************************************************************************)
(* The building-intelligence services:                                     *)
(*   - Core API: WeeklyScheduleEvent / WeeklyRecurringScheduler            *)
(*     (schedule/models.py, schedule/weekly_scheduler.py), DeviceScheduler *)
(*     (schedule/device_scheduler.py), SchedulerMonitor                    *)
(*     (schedule/monitor.py), the reconciliation pass update_setpoints     *)
(*     (app.py), the device and preference endpoints (api/), the bus       *)
(*     calls of RealtimeDataManager and ForecastQueries;                   *)
(*   - Data Engine: the forecast responder, the blackout detector, the     *)
(*     cloud mirror and the process entry point (data_engine/);            *)
(*   - Grid Services API: the publish helper (api/publisher.py);           *)
(*   - HA Device Interface: HomeAssistantDeviceInterface.set               *)
(*     (control/interface.py).                                             *)
(*                                                                         *)
(* The specifications of the module:                                       *)
(*   SpecEvent     construction of one WeeklyScheduleEvent,                *)
(*   SpecWeekly    one WeeklyRecurringScheduler: _add_schedules, get_event,*)
(*   Spec          the Core API process: endpoints, clock, reconciliation, *)
(*   SpecApi       the HTTP endpoints of the Core API at one instant,      *)
(*   SpecMonitor   SchedulerMonitor.get_device_event_data as a function,   *)
(*   SpecForecast  the forecast responder and its cache,                   *)
(*   SpecBlackout  the blackout detector and its RPC tasks,                *)
(*   SpecEngine    the data engine process: scheduler job and event loop,  *)
(*   SpecBus       the request and publish calls on the message bus,       *)
(*   SpecInterface HomeAssistantDeviceInterface.set as a function,         *)
(*   SpecChangedFlag  get_device_event_data_with_changed_flag on any cache *)
(*                 entry,                                                  *)
(*   SpecOverride  the Core API process after a direct setpoint,           *)
(*   SpecDetectorFaults  the blackout detector when a read fails,          *)
(*   SpecMirror    the passes of InfluxMirror.sync_all_measurements.       *)
(***************************************************************************)
EXTENDS Integers, Sequences, FiniteSets, TLC

VARIABLES
    event,        \* SpecEvent: the last WeeklyScheduleEvent constructed (with its input)
    schedules,    \* WeeklyRecurringScheduler._schedules: sequence of Schedule
    wkOut,        \* SpecWeekly: what the last call on the scheduler returned
    now,          \* Spec: the wall clock, in seconds since Monday 00:00:00 local time
    influx,       \* Spec: the control points of the device's setpoint field
    redis,        \* Spec: the cache entry event_value_setpoint_<device>, or None
    started,      \* Spec: main() has run its startup pass and serves requests
    cronDone,     \* Spec: the cron job has fired for the current second
    coreOut,      \* Spec: what the last handler or call did
    unpublished,  \* Spec: the direct setpoint written but not published when the process stopped
    fcNow,        \* SpecForecast: the clock of the data engine
    fcCache,      \* SpecForecast: the cache entry day_ahead_forecast_cache, or None
    fcLog,        \* SpecForecast: the forecast requests answered so far
    fcOut,        \* SpecForecast: what the last request did
    bkNow,        \* SpecBlackout: the clock of the blackout detector, in ticks
    series,       \* SpecBlackout: net_power rows of the last 24 hours, as the gaps between them
    bkCache,      \* SpecBlackout: blackout_info, grap_cold_pickup_call, grap_info entries
    rpc,          \* SpecBlackout: cold-load-pickup RPC tasks created and not finished
    bkOut,        \* SpecBlackout: what the last step of the detector did
    detector,     \* SpecBlackout: the polling loop, and what its reads run into
    engine,       \* SpecEngine: the data engine process: scheduler job, event-loop tasks
    bus,          \* SpecBus: for each message-bus client, whether it is connected
    busOut,       \* SpecBus: the last request or publish call and how it ended
    haOut,        \* SpecInterface: the last call of HomeAssistantDeviceInterface.set
    mirrorOut     \* SpecMirror: the last pass of InfluxMirror.sync_all_measurements

weeklyVars == <<schedules, wkOut>>
eventVars == <<event>>
coreVars == <<now, influx, redis, started, cronDone, coreOut, unpublished>>
forecastVars == <<fcNow, fcCache, fcLog, fcOut>>
blackoutVars == <<bkNow, series, bkCache, rpc, bkOut, detector>>
engineVars == <<engine>>
busVars == <<bus, busOut>>
haVars == <<haOut>>
mirrorVars == <<mirrorOut>>
vars == <<eventVars, weeklyVars, coreVars, forecastVars, blackoutVars, engineVars, busVars,
          haVars, mirrorVars>>

(***************************************************************************)
(* Bounds of the model                                                     *)
(***************************************************************************)
MaxHour == 2          \* hours of a datetime.time drawn from 0..MaxHour
MaxMinute == 2        \* minutes drawn from 0..MaxMinute
MaxSecond == 1        \* seconds drawn from 0..MaxSecond
MaxMicrosecond == 1   \* microseconds drawn from 0..MaxMicrosecond
MaxTotalEvents == 3   \* events held by one scheduler (sum over its schedules)
SecondsPerMinute == 2 \* resolution of the clock: the model's minute has 2 seconds
MaxNow == 3           \* the clock stops at this second
MaxOverrideNow == 6   \* SpecOverride: the clock stops at this second
MaxPoints == 2        \* control points held by the time-series database
TicksPerDay == 2      \* resolution of the data engine's clock: ticks in 24 hours
MaxForecastNow == 3   \* the data engine's clock stops at this tick
MaxRequests == 3      \* forecast requests answered in one behaviour
TickSeconds == 300    \* resolution of the detector's clock: seconds in one tick
MaxBlackoutNow == 8   \* the detector's clock stops at this tick
MaxGaps == 3          \* gaps between the net_power rows of the last 24 hours
HourTicks == 3        \* ticks of the data engine's clock in one hour
SleepTicks == 1       \* ticks the blackout loop sleeps between two polls
MaxRpc == 2           \* cold-load-pickup RPC tasks outstanding at once

(***************************************************************************)
(* Values                                                                  *)
(***************************************************************************)
\* Python's None, as a record so that it compares with the records below.
None == [none |-> TRUE]

\* models.Weekday, in the order of datetime.weekday() (Monday = 0).
WeekdayNames ==
    <<"MONDAY", "TUESDAY", "WEDNESDAY", "THURSDAY", "FRIDAY", "SATURDAY", "SUNDAY">>

Weekday == {WeekdayNames[i] : i \in 1..7}

\* datetime.time(hour, minute, second, microsecond)
Time(h, m, s, us) == [hour |-> h, minute |-> m, second |-> s, microsecond |-> us]

\* Python orders naive times as the tuples (hour, minute, second, microsecond).
TimeLess(a, b) ==
    \/ a.hour < b.hour
    \/ a.hour = b.hour /\ a.minute < b.minute
    \/ a.hour = b.hour /\ a.minute = b.minute /\ a.second < b.second
    \/ a.hour = b.hour /\ a.minute = b.minute /\ a.second = b.second
       /\ a.microsecond < b.microsecond

TimeLE(a, b) == a = b \/ TimeLess(a, b)

\* Setpoint payloads of the events (degrees).
Data == {17, 18}

(***************************************************************************)
(* models.WeeklyScheduleEvent                                              *)
(***************************************************************************)
\* A truncation that drops the microseconds only (datetime.replace(microsecond=0)).
TruncateMicroseconds(t) == Time(t.hour, t.minute, t.second, 0)

\* __post_init__, line 202: self.time = time(self.time.hour, self.time.minute)
NormalizeTime(t) == Time(t.hour, t.minute, 0, 0)

\* An id is a tuple of its parts (f"{schedule_name}_{time}" is <<name, time>>);
\* the empty tuple stands for id=None.
NoId == <<>>

\* generate_name: f"WeeklyScheduleEvent-[{days_str}]}}"
generate_name(days) == <<"WeeklyScheduleEvent", days>>

\* The dataclass constructor followed by __post_init__.  days is a list in the
\* code; only membership and set(days) are ever used, so it is a set here.
WeeklyScheduleEvent(id, t, data, days) ==
    [id |-> IF id = NoId THEN generate_name(days) ELSE id,
     time |-> NormalizeTime(t), data |-> data, days |-> days]


(***************************************************************************)
(* weekly_scheduler.WeeklyRecurringScheduler                               *)
(***************************************************************************)
\* datetime.strptime(event_data["time"], "%H:%M").time(): the string "HH:MM"
\* is the pair <<HH, MM>>; the parsed time has no seconds.
strptime(s) == Time(s[1], s[2], 0, 0)

\* The "HH:MM" strings the configurations use: "00:01" and "01:00".
EventTimeStrings == {<<0, 1>>, <<1, 0>>}

\* The schedule blocks the configurations use: a name and its "days" list.
ScheduleDays ==
    [weekday |-> {"MONDAY", "TUESDAY", "WEDNESDAY", "THURSDAY", "FRIDAY"},
     weekend |-> {"SATURDAY", "SUNDAY"}]

ScheduleNames == DOMAIN ScheduleDays

\* get_events: the events of all schedules, flattened in registration order.
RECURSIVE get_events(_)
get_events(scheds) ==
    IF scheds = <<>> THEN <<>>
    ELSE Head(scheds).events \o get_events(Tail(scheds))

\* _validate_event: TRUE when the code raises WeeklyRecurringSchedulerError,
\* i.e. a registered event shares a day and the time of day with `ev`.
_validate_event(scheds, ev) ==
    LET existing == get_events(scheds) IN
    \E i \in 1..Len(existing) :
        /\ existing[i].days \cap ev.days # {}
        /\ existing[i].time = ev.time

\* The events list built by the inner loop of _add_schedules for one block.
BlockEvents(name, blk) ==
    [i \in 1..Len(blk.events) |->
        WeeklyScheduleEvent(<<name, blk.events[i].time>>,
                            strptime(blk.events[i].time),
                            blk.events[i].data,
                            blk.days)]

\* _add_schedules: `input` is the dictionary, as the sequence of its items
\* (<<name, schedule_data>>) in iteration order.  Every event of a block is
\* validated against the schedules registered so far (self._schedules), the
\* block is appended once all its events passed.  The result carries the
\* scheduler's list when the call returns or raises.
RECURSIVE _add_schedules(_, _)
_add_schedules(scheds, input) ==
    IF input = <<>> THEN [schedules |-> scheds, raised |-> FALSE]
    ELSE LET name == Head(input)[1]
             blk == Head(input)[2]
             events == BlockEvents(name, blk)
         IN IF \E i \in 1..Len(events) : _validate_event(scheds, events[i])
            THEN [schedules |-> scheds, raised |-> TRUE]
            ELSE _add_schedules(
                     Append(scheds, [id |-> name, name |-> name, events |-> events]),
                     Tail(input))

\* The fallback with min() in place of max(): the earliest event of the day.
MinByTime(seq) ==
    LET i == CHOOSE k \in 1..Len(seq) :
                 /\ \A j \in 1..Len(seq) : TimeLE(seq[k].time, seq[j].time)
                 /\ \A j \in 1..(k - 1) : seq[j].time # seq[k].time
    IN seq[i]

\* The element of a non-empty sequence that Python's max(seq, key=time)
\* returns: the first one no other exceeds.
MaxByTime(seq) ==
    LET i == CHOOSE k \in 1..Len(seq) :
                 /\ \A j \in 1..Len(seq) : TimeLE(seq[j].time, seq[k].time)
                 /\ \A j \in 1..(k - 1) : seq[j].time # seq[k].time
    IN seq[i]

\* The loop `for event in reversed(valid_events): if event.time <= current_time`:
\* the last element of the list, in list order, whose time is not after
\* current_time; None when there is none.
LastNotAfter(seq, current_time) ==
    LET hits == {k \in 1..Len(seq) : TimeLE(seq[k].time, current_time)} IN
    IF hits = {} THEN None
    ELSE seq[CHOOSE k \in hits : \A j \in hits : j <= k]

\* get_event without the weekday filter on valid_events.
get_event_any_day(scheds, current_day, current_time) ==
    LET valid_events == get_events(scheds)
        active_event == LastNotAfter(valid_events, current_time)
    IN IF valid_events = <<>> THEN None
       ELSE IF active_event = None THEN MaxByTime(valid_events)
       ELSE active_event

\* get_event, from the local weekday and time of day of the timestamp.
get_event(scheds, current_day, current_time) ==
    LET valid_events ==
            SelectSeq(get_events(scheds), LAMBDA e : current_day \in e.days)
        active_event == LastNotAfter(valid_events, current_time)
    IN IF valid_events = <<>> THEN None
       ELSE IF active_event = None THEN MaxByTime(valid_events)
       ELSE active_event

\* ---- inputs ------------------------------------------------------------
\* A schedule_data block: {"days": [...], "events": [{"time", "data"}, ...]}
EventData == [time : EventTimeStrings, data : Data]

EventLists(n) == UNION {[1..k -> EventData] : k \in 1..n}

RECURSIVE CountEvents(_)
CountEvents(input) ==
    IF input = <<>> THEN 0
    ELSE Len(Head(input)[2].events) + CountEvents(Tail(input))

\* Dictionaries of one or two blocks (keys are distinct) holding at most n
\* events in all.
Block(name, n) == {<<name, [days |-> ScheduleDays[name], events |-> evs]>> :
                      evs \in EventLists(n)}

ScheduleDicts(n) ==
    LET one == UNION {{<<b>> : b \in Block(nm, n)} : nm \in ScheduleNames}
        two == UNION {{<<b1, b2>> : b1 \in Block(nn[1], n - 1), b2 \in Block(nn[2], n - 1)} :
                          nn \in {x \in ScheduleNames \X ScheduleNames : x[1] # x[2]}}
    IN {d \in one \cup two : CountEvents(d) <= n}

\* Timestamps handed to get_event, in the scheduler's time zone: the weekday
\* of the date (datetime.weekday(), Monday = 0) and the wall-clock time.
QueryTimes ==
    {Time(0, 0, MaxSecond, MaxMicrosecond),   \* before "00:01"
     Time(0, 1, 0, 0),                        \* exactly "00:01"
     Time(1, 0, MaxSecond, 0)}                \* after "01:00"

\* local_time = timestamp.astimezone(tz).replace(microsecond=0);
\* current_day = Weekday(local_time.strftime("%A").upper())
CurrentDay(ts) == WeekdayNames[ts.weekday + 1]
CurrentTime(ts) == [ts.time EXCEPT !.microsecond = 0]

\* Does the input hold an event that shares a day and the time of day with
\* an event registered before the call?
ConflictsWithRegistered(scheds, input) ==
    \E b \in 1..Len(input) :
        \E i \in 1..Len(input[b][2].events) :
            _validate_event(scheds,
                WeeklyScheduleEvent(<<input[b][1], input[b][2].events[i].time>>,
                                    strptime(input[b][2].events[i].time),
                                    input[b][2].events[i].data,
                                    input[b][2].days))

(***************************************************************************)
(* Time, the time-series database and the cache                            *)
(***************************************************************************)
\* SCHEDULE_DEFAULT_TIME_STEP_DURATION_IN_SECONDS (60 s): one minute.
time_step_duration_in_seconds == SecondsPerMinute

\* datetime.now().replace(microsecond=0).astimezone() for clock second t:
\* the weekday of the date and the wall-clock time.
LocalTimestamp(t) ==
    [weekday |-> (t \div (SecondsPerMinute * 60 * 24)) % 7,
     time |-> Time((t \div (SecondsPerMinute * 60)) % 24,
                   (t \div SecondsPerMinute) % 60,
                   t % SecondsPerMinute, 0)]

\* The one device of the inventory (user_devices), a thermostat.
DeviceId == "tz1"
RequestedDevices == {DeviceId, "ghost"}

\* DeviceHelper.device_exists / RealtimeDataManager.has_device
has_device(device_id) == device_id = DeviceId

\* A JSON value read from or written to the cache: a number is wrapped so
\* that it compares with None (JSON null).
Json(v) == [value |-> v]

\* ScheduleEventData(event_id, data, from_direct_control)
ScheduleEventData(event_id, data, fdc) ==
    [event_id |-> event_id, data |-> data, from_direct_control |-> fdc]

\* current_data.data if current_data is not None else None
DataOf(r) == IF r = None THEN None ELSE Json(r.data)

\* current_data.from_direct_control if current_data is not None else False
FromDirectControlOf(r) == IF r = None THEN FALSE ELSE r.from_direct_control

\* A control point written by _write_schedule_for_device_type: its timestamp,
\* the tags priority = str(priority) and from_direct_control =
\* str(int(from_direct_control)), and the field value.
Point(t, priority, fdc, v) ==
    [time |-> t, priority |-> priority,
     from_direct_control |-> IF fdc THEN "1" ELSE "0", value |-> v]

\* InfluxDB keeps one point per series (measurement, tags, field) and
\* timestamp: a write replaces the point with the same tags and time.
WritePoint(points, p) ==
    {q \in points : ~(/\ q.time = p.time
                      /\ q.priority = p.priority
                      /\ q.from_direct_control = p.from_direct_control)}
    \cup {p}

\* RedisClient.safe_read_from_redis on the entry: None when the key is absent
\* or expired, else json.loads of the stored text.
safe_read_from_redis(entry, t) ==
    IF entry = None \/ t >= entry.expires THEN None ELSE entry.value

\* RedisClient.save_in_redis_with_expiration at second t.
save_in_redis_with_expiration(value, expiration_in_seconds, t) ==
    [value |-> value, expires |-> t + expiration_in_seconds]

(***************************************************************************)
(* device_scheduler.DeviceScheduler                                        *)
(***************************************************************************)
\* A query that keeps every point up to timeTarget, however old.
QueryUpToTarget(points, time_target) == {p \in points : p.time <= time_target}

\* The points the Flux query keeps: range(start: timeLimit - 300 s,
\* stop: timeTarget + 1 us), then _time >= timeLimit and _time <= timeTarget.
QueryWindow(points, time_target) ==
    LET time_limit == time_target - time_step_duration_in_seconds
        time_windows_start == time_limit - 5 * SecondsPerMinute
    IN {p \in points :
            /\ p.time >= time_windows_start /\ p.time <= time_target
            /\ p.time >= time_limit /\ p.time <= time_target}

\* A query that sorts by time before priority.
Top1ByRecency(points) ==
    {p \in points :
        \A q \in points :
            \/ q.time < p.time
            \/ q.time = p.time /\ q.priority <= p.priority}

\* top(n: 1, columns: ["priority_int", "_time"]): the rows that come first
\* when sorting by priority, then by time, both descending.  Rows that tie on
\* both columns (they differ in the from_direct_control tag) come in an
\* order the query does not fix.
Top1(points) ==
    {p \in points :
        \A q \in points :
            \/ q.priority < p.priority
            \/ q.priority = p.priority /\ q.time <= p.time}

\* DeviceScheduler.get_event_data(time_target): the results the query can
\* give, None when no row matches.
DeviceScheduler_get_event_data(points, time_target) ==
    LET rows == Top1(QueryWindow(points, time_target)) IN
    IF rows = {} THEN {None}
    ELSE {ScheduleEventData(<<p.time>>, p.value,
                            p.from_direct_control = "1") : p \in rows}

\* How the write of _write_schedule_for_device_type can end.
WriteOutcomes == {"written", "write failed"}

\* DeviceScheduler.save_schedule for one device and one timestamp: unknown
\* devices are skipped with a logged error, and an exception of the write
\* is caught and logged (lines 200-201); the method returns None either
\* way.
save_schedule(points, priority, device_id, t, v, fdc, write) ==
    IF has_device(device_id) /\ write = "written"
    THEN WritePoint(points, Point(t, priority, fdc, v))
    ELSE points

(***************************************************************************)
(* weekly_scheduler.WeeklyRecurringScheduler.get_event_data                *)
(***************************************************************************)
Weekly_get_event_data(scheds, ts) ==
    LET active_event == get_event(scheds, CurrentDay(ts), CurrentTime(ts)) IN
    IF active_event # None
    THEN ScheduleEventData(active_event.id, active_event.data, FALSE)
    ELSE None

(***************************************************************************)
(* monitor.SchedulerMonitor                                                *)
(***************************************************************************)
ControlType ==
    {"setpoint", "power", "battery_power", "occupation", "state_of_charge", "sp_power"}

\* A mapping that gives the power control type a fallback too.
MappingWithPowerFallback ==
    [setpoint |-> "preferences_setpoint",
     occupation |-> "preferences_occupancy",
     state_of_charge |-> "preferences_soc",
     power |-> "preferences_setpoint", battery_power |-> "", sp_power |-> ""]

\* CONTROL_TO_PREFERENCE_TYPE_MAPPING ("" stands for None)
CONTROL_TO_PREFERENCE_TYPE_MAPPING ==
    [setpoint |-> "preferences_setpoint",
     occupation |-> "preferences_occupancy",
     state_of_charge |-> "preferences_soc",
     power |-> "", battery_power |-> "", sp_power |-> ""]

PreferenceType ==
    {"preferences_setpoint", "preferences_occupancy", "preferences_branched",
     "preferences_soc", "preferences_water_heater_consumption"}

\* The inventory entry of the device, reduced to its preference blocks: the
\* schedules of the block under `preference_type`, no block under the others.
DeviceData(preference_type, scheds) ==
    [k \in PreferenceType |-> IF k = preference_type THEN scheds ELSE <<>>]

\* get_device_event_data for a preference type: _extract_weekly_schedulers
\* registers a weekly scheduler when the device has a block of that type.
PreferenceEventData(device_data, type_key, t) ==
    IF device_data[type_key] # <<>>
    THEN Weekly_get_event_data(device_data[type_key], LocalTimestamp(t))
    ELSE None

\* The runs get_device_event_data(device, type_key, timestamp) can have:
\* what the device scheduler answered (None for a preference type), the
\* schedulers asked in order, and the data returned.  A control type asks
\* the device scheduler and, on None, recurses into the mapped preference
\* type.
get_device_event_data_runs(points, device_data, type_key, t) ==
    IF type_key \in ControlType
    THEN LET preference_type == CONTROL_TO_PREFERENCE_TYPE_MAPPING[type_key] IN
         {IF r = None /\ preference_type # ""
          THEN [device |-> r, asked |-> <<type_key, preference_type>>,
                data |-> PreferenceEventData(device_data, preference_type, t)]
          ELSE [device |-> r, asked |-> <<type_key>>, data |-> r] :
             r \in DeviceScheduler_get_event_data(points, t)}
    ELSE {[device |-> None, asked |-> <<type_key>>,
           data |-> PreferenceEventData(device_data, type_key, t)]}

\* get_device_event_data(device, type_key, timestamp): the results it can
\* give.
get_device_event_data(points, device_data, type_key, t) ==
    {run.data : run \in get_device_event_data_runs(points, device_data, type_key, t)}

\* `if previous_event_data:` on a cached value
Truthy(v) == v # None /\ v # Json(0)

\* A changed flag that only compares the two values.
ChangedFlagOfValues(previous_event_data, current_event_data, current_from_direct_control) ==
    previous_event_data # current_event_data

\* line 340: changed_flag
ChangedFlag(previous_event_data, current_event_data, current_from_direct_control) ==
    (previous_event_data # current_event_data) /\ current_from_direct_control = FALSE

\* get_device_event_data_with_changed_flag(device, type_key, timestamp): the
\* outcomes it can have, each with the cache entry it leaves.
get_device_event_data_with_changed_flag(points, device_data, entry, type_key, t) ==
    LET cached == safe_read_from_redis(entry, t)
        previous ==
            IF Truthy(cached) THEN {cached}
            ELSE {DataOf(r) : r \in get_device_event_data(
                      points, device_data, type_key, t - time_step_duration_in_seconds)}
        current == get_device_event_data(points, device_data, type_key, t)
    IN {[previous |-> pv, recomputed |-> ~Truthy(cached), current |-> cu,
         changed |-> ChangedFlag(pv, DataOf(cu), FromDirectControlOf(cu)),
         entry |-> save_in_redis_with_expiration(
                       DataOf(cu), time_step_duration_in_seconds * 2, t)] :
            pv \in previous, cu \in current}

(***************************************************************************)
(* app.update_setpoints, api/devices.py                                    *)
(***************************************************************************)
\* A pass that publishes changed values only.
ShouldPublishChanged(data, changed, system_just_started) ==
    data # None /\ changed

\* line 112: if data and (changed or system_just_started)
ShouldPublish(data, changed, system_just_started) ==
    data # None /\ (changed \/ system_just_started)

\* The preference blocks a device inventory may carry for the device: none,
\* or a weekday schedule "00:01" -> 17, "01:00" -> 18.
PreferenceBlocks ==
    {<<>>,
     <<<<"weekday", [days |-> ScheduleDays["weekday"],
                     events |-> <<[time |-> <<0, 1>>, data |-> 17],
                                  [time |-> <<1, 0>>, data |-> 18]>>]>>>>}

\* The device's entry of user_devices in the Core API process: its
\* preference block, if any, is a preferences_setpoint block.
user_device == DeviceData("preferences_setpoint", schedules)

\* The Core API process before main() runs, on empty stores.
CoreIdle ==
    /\ now = 0
    /\ influx = {}
    /\ redis = None
    /\ started = FALSE
    /\ cronDone = FALSE
    /\ coreOut = [op |-> "init"]
    /\ unpublished = None

(***************************************************************************)
(* Message-bus clients (faststream RedisBroker)                            *)
(***************************************************************************)
\* The clients that make request or publish calls: the broker handed to
\* RealtimeDataManager, the broker of ForecastQueries, the broker of
\* DetectBlackout, and redis_broker of the Grid Services API.
BusClients == {"realtime", "forecast_queries", "detect_blackout", "grid_services"}

\* broker.connect(): the client is connected (no effect when it already is)
connect(clients, client) == [clients EXCEPT ![client] = TRUE]

\* broker.close()
close(clients, client) == [clients EXCEPT ![client] = FALSE]

BusIdle ==
    /\ bus = [client \in BusClients |-> FALSE]
    /\ busOut = [op |-> "init"]

\* How one call can end: connect() raises, the request or publish raises,
\* or the call returns.
BusOutcomes == {"connect failed", "call failed", "returned"}

\* RealtimeDataManager._send_request(broker, payload, topic): connect, then
\* request and decode in a try block whose finally clause closes the broker.
_send_request ==
    \E outcome \in BusOutcomes :
        /\ bus' = IF outcome = "connect failed" THEN bus
                  ELSE close(connect(bus, "realtime"), "realtime")
        /\ busOut' = [op |-> "_send_request", client |-> "realtime", outcome |-> outcome]

\* RealtimeDataManager._publish(broker, payload, topic): connect, then
\* publish in a try block whose finally clause closes the broker.
_publish ==
    \E outcome \in BusOutcomes :
        /\ bus' = IF outcome = "connect failed" THEN bus
                  ELSE close(connect(bus, "realtime"), "realtime")
        /\ busOut' = [op |-> "_publish", client |-> "realtime", outcome |-> outcome]

\* ForecastQueries.load_ec_non_controllable_loads_forecast, through its
\* _send_request: connect, request in a try block, close in finally.
load_ec_non_controllable_loads_forecast ==
    \E outcome \in BusOutcomes :
        /\ bus' = IF outcome = "connect failed" THEN bus
                  ELSE close(connect(bus, "forecast_queries"), "forecast_queries")
        /\ busOut' = [op |-> "load_ec_non_controllable_loads_forecast",
                      client |-> "forecast_queries", outcome |-> outcome]

\* publish(payload, topic) of the Grid Services API: connect, request and
\* decode inside one try block that logs and re-raises; no close.
publish ==
    \E outcome \in BusOutcomes :
        /\ bus' = IF outcome = "connect failed" THEN bus
                  ELSE connect(bus, "grid_services")
        /\ busOut' = [op |-> "publish", client |-> "grid_services", outcome |-> outcome]

\* The data engine process before main() runs.
EngineIdle ==
    engine = [pc |-> "init", tasks |-> {}, clock |-> 0, mirror_due |-> FALSE,
              sleep |-> 0, ran |-> "none"]

(***************************************************************************)
(* data_engine/database/influx_mirror.py                                   *)
(***************************************************************************)
\* Times of the mirror are hours; a pass starts at an hour 0..MaxMirrorNow.
MaxMirrorNow == 1

\* At most this many measurements are discovered in the cloud bucket.
MaxMeasurements == 3

\* timedelta(days=..., hours=...), in hours.
timedelta(days, hours) == days * 24 + hours

\* The measurements the cloud bucket can hold.
MirrorMeasurements == {"historic", "net_power", "weather"}

\* get_measurements_on_bucket(cloud_bucket): the measurements in the order
\* the schema query returns them; empty also when the query fails.
get_measurements_on_bucket ==
    {m \in UNION {[1..n -> MirrorMeasurements] : n \in 0..MaxMeasurements} :
        \A i, j \in DOMAIN m : m[i] = m[j] => i = j}

\* How the work on one measurement ends: get_fields returns nothing (also
\* when it fails); the read returns no rows; the rows are written; the read
\* or the write raises; it raises with a rate-limit message.
SyncOutcomes == {"no fields", "no data", "synced", "failed", "rate limited"}

\* The seconds slept on one measurement: the 60-second backoff on a rate
\* limit and the 1-second throttle of the finally clause.
SyncSleep(outcome) ==
    CASE outcome = "no fields" -> 0
      [] outcome = "rate limited" -> 60 + 1
      [] OTHER -> 1

\* The for loop of sync_all_measurements (lines 74-108), with start_time as
\* the loop carries it from one measurement to the next.
RECURSIVE SyncLoop(_, _, _, _)
SyncLoop(measurements, outcome, current, start_time) ==
    IF measurements = <<>> THEN <<>>
    ELSE LET measurement == Head(measurements)
             fields == outcome[measurement] # "no fields"
             start == IF fields /\ measurement = "historic"
                      THEN current - timedelta(20, 0)
                      ELSE start_time
         IN <<[measurement |-> measurement,
               outcome |-> outcome[measurement],
               read |-> fields,
               start |-> start,
               stop |-> current + timedelta(0, 130),
               sleep |-> SyncSleep(outcome[measurement])]>>
            \o SyncLoop(Tail(measurements), outcome, current, start)

\* sync_all_measurements(cloud_bucket, local_bucket): one pass, as the list
\* of what was done for each measurement.
sync_all_measurements(measurements, outcome, current) ==
    SyncLoop(measurements, outcome, current, current - timedelta(0, 5))

MirrorIdle == mirrorOut = [op |-> "init"]

\* A pass of the mirror: the initial one of run() or an hourly one.
SyncAllMeasurements ==
    \E current \in 0..MaxMirrorNow, measurements \in get_measurements_on_bucket :
    \E outcome \in [{measurements[i] : i \in DOMAIN measurements} -> SyncOutcomes] :
        mirrorOut' = [op |-> "sync_all_measurements", now |-> current,
                      measurements |-> measurements,
                      log |-> sync_all_measurements(measurements, outcome, current)]

(***************************************************************************)
(* ha_device_interface/control/interface.py                                *)
(***************************************************************************)
InterfaceIdle == haOut = [op |-> "init"]

\* The device types set() has a service for.
SetDeviceTypes == {"water_heater", "space_heating", "on_off_ev_charger", "electric_storage"}

\* The action values of a request: Python booleans, and numbers written in
\* tenths.
Actions ==
    [bool : BOOLEAN] \cup [tenths : {-27, -20, -5, 0, 5, 20, 27}]

\* The number a Python value counts as, in tenths (True is 1, False is 0).
TenthsOf(action) ==
    IF "bool" \in DOMAIN action THEN (IF action.bool THEN 10 ELSE 0) ELSE action.tenths

\* Python truthiness of the action value
truthy(action) == TenthsOf(action) # 0

\* A conversion that rounds toward minus infinity.
floor(action) == TenthsOf(action) \div 10

\* Python int(action): the fractional part is dropped, toward zero.
int(action) ==
    IF TenthsOf(action) >= 0 THEN TenthsOf(action) \div 10
    ELSE -((-TenthsOf(action)) \div 10)

abs(n) == IF n >= 0 THEN n ELSE -n

\* The final status codes the platform can answer with.
PlatformStatuses == {200, 204, 304, 404, 500}

\* requests.Response.raise_for_status(): raises HTTPError for a client
\* error (4xx) or a server error (5xx) status, returns otherwise.
raise_for_status(status_code) == 400 <= status_code /\ status_code < 600

\* set(params): the url suffix and the body of the POST, and whether the
\* call raises.
HomeAssistantDeviceInterface_set ==
    \E device_type \in SetDeviceTypes, action \in Actions, status_code \in PlatformStatuses :
        LET entity_id == DeviceId
            url_suffix ==
                [water_heater |->
                     IF truthy(action) THEN "services/switch/turn_on"
                     ELSE "services/switch/turn_off",
                 space_heating |-> "services/climate/set_temperature",
                 on_off_ev_charger |->
                     IF truthy(action) THEN "services/switch/turn_on"
                     ELSE "services/switch/turn_off",
                 electric_storage |->
                     IF TenthsOf(action) >= 0 THEN "events/set_recharge_battery_power"
                     ELSE "events/set_discharge_battery_power"]
            body ==
                [water_heater |-> [entity_id |-> <<"switch", entity_id>>],
                 space_heating |-> [entity_id |-> <<"climate", entity_id>>,
                                    temperature |-> action],
                 on_off_ev_charger |-> [entity_id |-> <<"switch", entity_id>>],
                 electric_storage |-> [power_value |-> abs(int(action))]]
        IN haOut' = [op |-> "set", type |-> device_type, action |-> action,
                     url_suffix |-> url_suffix[device_type],
                     json |-> body[device_type],
                     status_code |-> status_code,
                     raised |-> raise_for_status(status_code)]

(***************************************************************************)
(* data_engine/events/forecaster_rpc_answer.py                             *)
(***************************************************************************)
\* labels_channels["non_controllable_loads"]
forecast_request_topic == "non_controllable_loads"
ForecastMessages == {forecast_request_topic, "other"}

\* The params of a request: start, stop, interval.
ForecastParams == [start : {0, 1}, stop : {2}, interval : {10, 15}]

\* An expiration one tick short of 24 hours.
ShortOfADay == TicksPerDay - 1

\* The expiration of day_ahead_forecast_cache: 86400 s.
ForecastCacheExpiration == TicksPerDay

\* ForecastRetriever.non_controllable_loads_forecast(start, stop, interval):
\* a forecast learned from the history of the 30 days before start, as the
\* time-series database holds it when the computation runs at tick t.
non_controllable_loads_forecast(start, stop, interval, t) ==
    [periods |-> <<start, stop, interval>>, history_at |-> t]

\* A lookup that compares the dates only.
cached_forecast_of_dates(params, cached_forecast) ==
    IF cached_forecast = None THEN None
    ELSE IF /\ params.start = cached_forecast.start
            /\ params.stop = cached_forecast.stop
         THEN cached_forecast
         ELSE None

\* The try block of lines 83-97: the cached response if it matches the
\* params, else None (a missing entry raises on the subscript and is logged).
serialized_cached_forecast(params, cached_forecast) ==
    IF cached_forecast = None THEN None
    ELSE IF /\ params.start = cached_forecast.start
            /\ params.stop = cached_forecast.stop
            /\ params.interval = cached_forecast.interval
         THEN cached_forecast
         ELSE None

ForecastIdle ==
    /\ fcNow = 0
    /\ fcCache = None
    /\ fcLog = <<>>
    /\ fcOut = [op |-> "init"]

\* One tick of the data engine's clock; the cache drops an expired entry.
ForecastTick ==
    /\ fcNow < MaxForecastNow
    /\ fcNow' = fcNow + 1
    /\ fcCache' = IF safe_read_from_redis(fcCache, fcNow + 1) = None THEN None ELSE fcCache
    /\ fcOut' = [op |-> "tick"]
    /\ UNCHANGED fcLog

\* non_controllable_loads_forecast_request(forecast_confirmation_request)
non_controllable_loads_forecast_request ==
    /\ Len(fcLog) < MaxRequests
    /\ \E message \in ForecastMessages, params \in ForecastParams :
        IF message = forecast_request_topic
        THEN LET cached == serialized_cached_forecast(
                               params, safe_read_from_redis(fcCache, fcNow))
                 forecast_response ==
                     [start |-> params.start, stop |-> params.stop,
                      interval |-> params.interval,
                      forecast |-> non_controllable_loads_forecast(
                          params.start, params.stop, params.interval, fcNow)]
             IN IF cached # None
                THEN /\ fcOut' = [op |-> "request", params |-> params,
                                  before |-> fcCache, reply |-> cached,
                                  computed |-> FALSE, saved |-> FALSE]
                     /\ fcLog' = Append(fcLog, [params |-> params, time |-> fcNow,
                                                computed |-> FALSE])
                     /\ UNCHANGED fcCache
                ELSE /\ fcCache' = save_in_redis_with_expiration(
                                       forecast_response, ForecastCacheExpiration, fcNow)
                     /\ fcOut' = [op |-> "request", params |-> params,
                                  before |-> fcCache, reply |-> forecast_response,
                                  computed |-> TRUE, saved |-> TRUE]
                     /\ fcLog' = Append(fcLog, [params |-> params, time |-> fcNow,
                                                computed |-> TRUE])
        ELSE /\ fcOut' = [op |-> "error", reply |-> [content |-> message]]
             /\ UNCHANGED <<fcCache, fcLog>>
    /\ UNCHANGED fcNow

(***************************************************************************)
(* data_engine/grap/detect_blackout.py                                     *)
(***************************************************************************)
\* Gaps between consecutive net_power rows, in thousandths of a minute:
\* 30 s, 5 min, 30 min 0.24 s, 35 min.
GapLengths == {500, 5000, 30004, 35000}

\* The series the 24-hour read can return: at least one row, so from no gap
\* to MaxGaps gaps, oldest first.
RECURSIVE GapSeries(_)
GapSeries(n) ==
    IF n = 0 THEN {<<>>}
    ELSE GapSeries(n - 1)
         \cup {Append(g, x) : g \in {h \in GapSeries(n - 1) : Len(h) = n - 1},
                              x \in GapLengths}

\* np.around(minutes, 2), from thousandths to hundredths of a minute.
around2(thousandths) == (thousandths + 5) \div 10

\* line 70: blackout_duration > 30 (minutes), on hundredths of a minute
BlackoutMinutes == 30

\* The detection that keeps the largest gap instead of the last one.
_detect_largest_data_interruption(rows, min_gap_minutes) ==
    LET big == {i \in 1..Len(rows) : rows[i] > min_gap_minutes * 1000} IN
    IF big = {} THEN None
    ELSE LET top == CHOOSE i \in big : \A j \in big : rows[j] <= rows[i]
         IN [duration |-> around2(rows[top]), stop |-> top]

\* _detect_last_data_interruption(min_gap_minutes): the gaps longer than
\* min_gap_minutes, and of these the last: its rounded duration and the row
\* that ends it; None stands for (None, None).
_detect_last_data_interruption(rows, min_gap_minutes) ==
    LET gaps == {i \in 1..Len(rows) : rows[i] > min_gap_minutes * 1000} IN
    IF gaps = {} THEN None
    ELSE LET last == CHOOSE i \in gaps : \A j \in gaps : j <= i
         IN [duration |-> around2(rows[last]), stop |-> last]

\* int(blackout_duration * 60) seconds, the expiration redis receives.
BlackoutExpiration(duration) == (duration * 60) \div 100

\* The replies of the cold-load-pickup RPC: duration in minutes, and stop.
GrapReplies == {[duration |-> 5, stop |-> "resume"], [duration |-> 10, stop |-> "resume"]}

\* A detector that never sees an active GRAP.
GrapNeverActive(grap_info) == FALSE

\* line 67: if grap_info is None ... else (the GRAP is already active)
GrapActive(grap_info) == grap_info # None

\* A detector that calls whatever the call state.
CallAlways(call_state) == TRUE

\* line 87: if call_state is None
CallNeeded(call_state) == call_state = None

\* The time of tick t, in seconds.
BlackoutSeconds(t) == t * TickSeconds

\* The cache entries the detector uses, all absent.
EmptyBlackoutCache ==
    [blackout_info |-> None, grap_cold_pickup_call |-> None, grap_info |-> None]

\* The cache keys a poll reads.
DetectorReads == {"grap_info", "grap_cold_pickup_call", "grid_service_grap"}

\* The loop of blackout_detection and the environment of its polls: `rows`
\* tells whether the 24-hour read of net_power returns rows, `failing` holds
\* the keys whose read ends in the except clause of the poll: for grap_info
\* and grap_cold_pickup_call the read raises something other than the
\* RedisError that safe_read_from_redis turns into None, for
\* grid_service_grap the key is missing or has no grap_limit.  `handled`
\* records that the reply of an RPC for the series has been saved.
HealthyDetector ==
    [loop |-> "running", rows |-> TRUE, failing |-> {}, handled |-> FALSE]

BlackoutIdle ==
    /\ bkNow = 0
    /\ series = <<>>
    /\ bkCache = EmptyBlackoutCache
    /\ rpc = 0
    /\ bkOut = [op |-> "init"]
    /\ detector = HealthyDetector

\* One tick of the clock; the cache drops the entries that expire.
BlackoutTick ==
    /\ bkNow < MaxBlackoutNow
    /\ bkNow' = bkNow + 1
    /\ bkCache' = [k \in DOMAIN bkCache |->
                      IF safe_read_from_redis(bkCache[k], BlackoutSeconds(bkNow + 1)) = None
                      THEN None ELSE bkCache[k]]
    /\ bkOut' = [op |-> "tick"]
    /\ UNCHANGED <<series, rpc, detector>>

\* detect_blackout_info_locally(): one poll of the detector.  A read that
\* ends in its except clause leaves its local variable unbound, and the
\* statement that uses the variable raises (lines 67, 87, 98); a 24-hour
\* read without rows raises at line 159, where the difference of an index
\* that holds no timestamps has no .dt accessor.  The exception ends the
\* loop of blackout_detection.
detect_blackout_info_locally ==
    LET t == BlackoutSeconds(bkNow)
        grap_info == safe_read_from_redis(bkCache.grap_info, t)
        read == "grap_info" \notin detector.failing /\ ~GrapActive(grap_info)
        interruption == IF read /\ detector.rows
                        THEN _detect_last_data_interruption(series, 1) ELSE None
        blackout == interruption # None /\ interruption.duration > BlackoutMinutes * 100
        call_state == safe_read_from_redis(bkCache.grap_cold_pickup_call, t)
        call == /\ blackout
                /\ "grap_cold_pickup_call" \notin detector.failing
                /\ CallNeeded(call_state)
        raised == \/ "grap_info" \in detector.failing
                  \/ read /\ ~detector.rows
                  \/ blackout /\ "grap_cold_pickup_call" \in detector.failing
                  \/ call /\ "grid_service_grap" \in detector.failing
        called == call /\ ~raised
    IN
    /\ detector.loop = "running"
    /\ called => rpc < MaxRpc
    /\ bkCache' = IF blackout
                  THEN [bkCache EXCEPT !.blackout_info =
                           save_in_redis_with_expiration(
                               interruption,
                               BlackoutExpiration(interruption.duration), t)]
                  ELSE bkCache
    /\ rpc' = IF called THEN rpc + 1 ELSE rpc
    /\ detector' = IF raised THEN [detector EXCEPT !.loop = "dead"] ELSE detector
    /\ bkOut' = [op |-> "detect", before |-> bkCache, read |-> read /\ detector.rows,
                 interruption |-> interruption, saved |-> blackout,
                 called |-> called, raised |-> raised]
    /\ UNCHANGED <<bkNow, series>>

\* _make_rpc_call(blackout_info): the end of one RPC task.  The request
\* fails; or the reply is saved under both keys; or the second save fails
\* after the first.  The client is connected before the try block and
\* closed in its finally clause.
_make_rpc_call ==
    /\ rpc > 0
    /\ rpc' = rpc - 1
    /\ LET t == BlackoutSeconds(bkNow) IN
       \/ /\ bkOut' = [op |-> "rpc", outcome |-> "request failed"]
          /\ UNCHANGED <<bkCache, detector>>
       \/ \E decoded_response \in GrapReplies :
            LET ex == decoded_response.duration * 60 IN
            \/ /\ bkCache' = [bkCache EXCEPT
                     !.grap_cold_pickup_call =
                         save_in_redis_with_expiration(Json("grap_called"), ex, t),
                     !.grap_info =
                         save_in_redis_with_expiration(decoded_response, ex, t)]
               /\ bkOut' = [op |-> "rpc", outcome |-> "recorded"]
               /\ detector' = [detector EXCEPT !.handled = TRUE]
            \/ /\ bkCache' = [bkCache EXCEPT
                     !.grap_cold_pickup_call =
                         save_in_redis_with_expiration(Json("grap_called"), ex, t)]
               /\ bkOut' = [op |-> "rpc", outcome |-> "second save failed"]
               /\ detector' = [detector EXCEPT !.handled = TRUE]
    /\ bus' = close(connect(bus, "detect_blackout"), "detect_blackout")
    /\ UNCHANGED <<bkNow, series>>

\* ---- actions -----------------------------------------------------------
\* No event constructed yet / a scheduler constructed from an empty dictionary.
EventIdle == event = None

WeeklyIdle ==
    /\ schedules = <<>>
    /\ wkOut = [op |-> "init"]

\* WeeklyScheduleEvent(id=..., time=..., data=..., days=[...]) on any time.
NewEvent ==
    \E id \in {NoId, <<"test_truncation">>},
       h \in 0..MaxHour, m \in 0..MaxMinute, s \in 0..MaxSecond,
       us \in 0..MaxMicrosecond, data \in Data, nm \in ScheduleNames :
        event' = [time |-> Time(h, m, s, us),
                  made |-> WeeklyScheduleEvent(id, Time(h, m, s, us), data,
                                               ScheduleDays[nm])]

\* A call of _add_schedules (by __init__ or, as in the tests, later).
AddSchedules ==
    \E input \in ScheduleDicts(MaxTotalEvents - Len(get_events(schedules))) :
        LET r == _add_schedules(schedules, input) IN
        /\ schedules' = r.schedules
        /\ wkOut' = [op |-> "_add_schedules", raised |-> r.raised,
                     conflict |-> ConflictsWithRegistered(schedules, input)]

\* A call of get_event(timestamp).
GetEvent ==
    \E wd \in 0..6, t \in QueryTimes :
        LET ts == [weekday |-> wd, time |-> t] IN
        /\ wkOut' = [op |-> "get_event", weekday |-> wd, time |-> CurrentTime(ts),
                     result |-> get_event(schedules, CurrentDay(ts), CurrentTime(ts))]
        /\ UNCHANGED schedules

InitEvent ==
    EventIdle /\ WeeklyIdle /\ CoreIdle /\ ForecastIdle /\ BlackoutIdle /\ EngineIdle /\ BusIdle /\ InterfaceIdle /\ MirrorIdle

NextEvent == NewEvent /\ UNCHANGED <<weeklyVars, coreVars, forecastVars, blackoutVars, engineVars, busVars, haVars, mirrorVars>>

SpecEvent == InitEvent /\ [][NextEvent]_vars

InitWeekly ==
    WeeklyIdle /\ EventIdle /\ CoreIdle /\ ForecastIdle /\ BlackoutIdle /\ EngineIdle /\ BusIdle /\ InterfaceIdle /\ MirrorIdle

NextWeekly ==
    \/ AddSchedules /\ UNCHANGED <<eventVars, coreVars, forecastVars, blackoutVars, engineVars, busVars, haVars, mirrorVars>>
    \/ GetEvent /\ UNCHANGED <<eventVars, coreVars, forecastVars, blackoutVars, engineVars, busVars, haVars, mirrorVars>>

SpecWeekly == InitWeekly /\ [][NextWeekly]_vars

\* ---- the Core API process ------------------------------------------------
\* The cache drops an entry when its time to live is over.
Expire(entry, t) == IF entry # None /\ t >= entry.expires THEN None ELSE entry

\* What is left unpublished once a set command for `value` was published,
\* or not.
Published(value, published) ==
    IF published /\ unpublished # None /\ unpublished.value = value
    THEN None ELSE unpublished

\* One second passes, on a clock that stops at `limit`.
ClockTick(limit) ==
    /\ now < limit
    /\ now' = now + 1
    /\ redis' = Expire(redis, now + 1)
    /\ cronDone' = FALSE
    /\ coreOut' = [op |-> "tick"]
    /\ UNCHANGED <<influx, started, unpublished>>

Tick == ClockTick(MaxNow)

\* update_setpoints(system_just_started): the pass over the devices.  The
\* monitor is rebuilt from the inventory, the timestamp is the clock's.
update_setpoints(system_just_started) ==
    \E o \in get_device_event_data_with_changed_flag(
                 influx, user_device, redis, "setpoint", now) :
        /\ redis' = o.entry
        /\ coreOut' = [op |-> "update_setpoints",
                       system_just_started |-> system_just_started,
                       previous |-> o.previous,
                       current |-> o.current,
                       changed |-> o.changed,
                       published |-> ShouldPublish(o.current, o.changed,
                                                   system_just_started)]
        /\ unpublished' = Published(o.current.data,
                                    ShouldPublish(o.current, o.changed, system_just_started))
        /\ UNCHANGED <<now, influx>>

\* main(): the startup pass, after which the server and the cron job run.
Startup ==
    /\ ~started
    /\ update_setpoints(TRUE)
    /\ started' = TRUE
    /\ UNCHANGED cronDone

\* The cron job "monitor_schedule", at second 0 of every minute.
CronPass ==
    /\ started
    /\ now % SecondsPerMinute = 0
    /\ ~cronDone
    /\ update_setpoints(FALSE)
    /\ cronDone' = TRUE
    /\ UNCHANGED started

\* The process stops; the stores keep their contents.
Stop ==
    /\ started
    /\ started' = FALSE
    /\ coreOut' = [op |-> "stop"]
    /\ UNCHANGED <<now, influx, redis, cronDone, unpublished>>

\* POST /devices/setpoint/{device_id}
set_device_id_setpoint ==
    /\ started
    /\ \E device_id \in RequestedDevices, setpoint \in Data :
        IF ~has_device(device_id)
        THEN /\ coreOut' = [op |-> "set_device_id_setpoint", status |-> 404,
                            published |-> FALSE, write |-> "none"]
             /\ UNCHANGED <<influx, unpublished>>
        ELSE \E write \in WriteOutcomes :
             /\ influx' = save_schedule(influx, 100, device_id, now, setpoint, TRUE, write)
             /\ Cardinality(influx') <= MaxPoints
             /\ coreOut' = [op |-> "set_device_id_setpoint", status |-> 200,
                            published |-> TRUE, write |-> write]
             /\ unpublished' = Published(setpoint, TRUE)
    /\ UNCHANGED <<now, redis, started, cronDone>>

\* POST /devices/setpoint/{device_id} on a process that stops between
\* save_schedule (line 74) and set_device_state (line 77).
set_device_id_setpoint_interrupted ==
    /\ started
    /\ unpublished = None
    /\ \E setpoint \in Data :
        /\ influx' = save_schedule(influx, 100, DeviceId, now, setpoint, TRUE, "written")
        /\ Cardinality(influx') <= MaxPoints
        /\ unpublished' = [value |-> setpoint, time |-> now]
    /\ started' = FALSE
    /\ coreOut' = [op |-> "interrupted"]
    /\ UNCHANGED <<now, redis, cronDone>>

\* The setpoints the dispatches of the bulk endpoint carry.
DispatchData == {18}

\* A validation that only rejects negative priorities.
PriorityNotNegative(priority) == 0 <= priority

\* devices.py line 127: 0 <= priority <= 100
PriorityValid(priority) == 0 <= priority /\ priority <= 100

\* POST /devices/schedule/{priority}, with one dispatch for one device.
\* `accesses` lists the stores the handler used: save_schedule reads
\* influxdb_mapping and user_devices from the cache, then writes the points.
set_device_dispatches_schedule ==
    /\ started
    /\ \E priority \in {-1, 80, 100, 101} :
        IF ~PriorityValid(priority)
        THEN /\ coreOut' = [op |-> "set_device_dispatches_schedule",
                            priority |-> priority, status |-> 400,
                            accesses |-> {}, write |-> "none"]
             /\ UNCHANGED influx
        ELSE \E device_id \in RequestedDevices, t \in {now, now + 1},
                v \in DispatchData, write \in WriteOutcomes :
             /\ has_device(device_id) \/ write = "written"
             /\ influx' = save_schedule(influx, priority, device_id, t, v, FALSE, write)
             /\ Cardinality(influx') <= MaxPoints
             /\ coreOut' = [op |-> "set_device_dispatches_schedule",
                            priority |-> priority, status |-> 200,
                            accesses |-> IF has_device(device_id)
                                         THEN {"cache", "timeseries"}
                                         ELSE {"cache"},
                            write |-> IF has_device(device_id) THEN write ELSE "none"]
    /\ UNCHANGED <<now, redis, started, cronDone, unpublished>>

\* preferences_data.py line 69, preferences_queries.py line 101
SamplingValid(sampling_in_minutes) ==
    ~(sampling_in_minutes < 1 \/ sampling_in_minutes > 60)

\* PreferencesType of the API, with the PreferenceType its loader asks for.
PreferencesType ==
    [setpoint_preferences |-> "preferences_setpoint",
     occupancy_preferences |-> "preferences_occupancy"]

\* GET /preferences/{preferences_type} for the device, over a range of
\* `days` days that holds the one timestep `now`.
request_preferences_data ==
    /\ started
    /\ \E preferences_type \in DOMAIN PreferencesType, days \in {0, 8},
          sampling_in_minutes \in {0, 1, 60, 61} :
        LET event_data == PreferenceEventData(
                              user_device, PreferencesType[preferences_type], now)
            rejected == days > 7 \/ ~SamplingValid(sampling_in_minutes)
        IN coreOut' = [op |-> "request_preferences_data",
                       sampling_in_minutes |-> sampling_in_minutes,
                       status |-> IF rejected THEN 400
                                  ELSE IF event_data = None THEN 204 ELSE 200,
                       accesses |-> IF rejected THEN {} ELSE {"cache", "scheduler"}]
    /\ UNCHANGED <<now, influx, redis, started, cronDone, unpublished>>

\* A call of DeviceScheduler.get_event_data(time_target) at the timestamp
\* of a pass.
GetEventData ==
    /\ \E time_target \in {now} :
        \E r \in DeviceScheduler_get_event_data(influx, time_target) :
            coreOut' = [op |-> "get_event_data", time_target |-> time_target,
                        result |-> r]
    /\ UNCHANGED <<now, influx, redis, started, cronDone, unpublished>>

Init ==
    /\ EventIdle
    /\ wkOut = [op |-> "init"]
    /\ \E block \in PreferenceBlocks : schedules = _add_schedules(<<>>, block).schedules
    /\ CoreIdle
    /\ ForecastIdle
    /\ BlackoutIdle
    /\ EngineIdle
    /\ BusIdle /\ InterfaceIdle /\ MirrorIdle

Next ==
    \/ Tick /\ UNCHANGED <<eventVars, weeklyVars, forecastVars, blackoutVars, engineVars, busVars, haVars, mirrorVars>>
    \/ Startup /\ UNCHANGED <<eventVars, weeklyVars, forecastVars, blackoutVars, engineVars, busVars, haVars, mirrorVars>>
    \/ CronPass /\ UNCHANGED <<eventVars, weeklyVars, forecastVars, blackoutVars, engineVars, busVars, haVars, mirrorVars>>
    \/ Stop /\ UNCHANGED <<eventVars, weeklyVars, forecastVars, blackoutVars, engineVars, busVars, haVars, mirrorVars>>
    \/ set_device_id_setpoint /\ UNCHANGED <<eventVars, weeklyVars, forecastVars, blackoutVars, engineVars, busVars, haVars, mirrorVars>>
    \/ set_device_id_setpoint_interrupted
           /\ UNCHANGED <<eventVars, weeklyVars, forecastVars, blackoutVars, engineVars, busVars, haVars, mirrorVars>>
    \/ set_device_dispatches_schedule /\ UNCHANGED <<eventVars, weeklyVars, forecastVars, blackoutVars, engineVars, busVars, haVars, mirrorVars>>
    \/ GetEventData /\ UNCHANGED <<eventVars, weeklyVars, forecastVars, blackoutVars, engineVars, busVars, haVars, mirrorVars>>

Spec == Init /\ [][Next]_vars

\* ---- the HTTP endpoints of the Core API, at one instant --------------------
NextApi ==
    \/ Startup /\ UNCHANGED <<eventVars, weeklyVars, forecastVars, blackoutVars, engineVars, busVars, haVars, mirrorVars>>
    \/ set_device_id_setpoint /\ UNCHANGED <<eventVars, weeklyVars, forecastVars, blackoutVars, engineVars, busVars, haVars, mirrorVars>>
    \/ set_device_dispatches_schedule /\ UNCHANGED <<eventVars, weeklyVars, forecastVars, blackoutVars, engineVars, busVars, haVars, mirrorVars>>
    \/ request_preferences_data /\ UNCHANGED <<eventVars, weeklyVars, forecastVars, blackoutVars, engineVars, busVars, haVars, mirrorVars>>

SpecApi == Init /\ [][NextApi]_vars

\* ---- SchedulerMonitor.get_device_event_data as a function ----------------
\* The control records a query may find: a dispatch and a direct setpoint,
\* at the first two seconds.
MonitorPoints ==
    {Point(t, 80, FALSE, 18) : t \in 0..1} \cup {Point(t, 100, TRUE, 17) : t \in 0..1}

InitMonitor ==
    /\ EventIdle /\ ForecastIdle /\ BlackoutIdle /\ EngineIdle /\ BusIdle /\ InterfaceIdle /\ MirrorIdle
    /\ wkOut = [op |-> "init"]
    /\ \E block \in PreferenceBlocks : schedules = _add_schedules(<<>>, block).schedules
    /\ now \in 0..MaxNow
    /\ influx \in {ps \in SUBSET MonitorPoints : Cardinality(ps) <= MaxPoints}
    /\ redis = None
    /\ started = FALSE
    /\ cronDone = FALSE
    /\ coreOut = [op |-> "init"]
    /\ unpublished = None

\* A call get_device_event_data(device, type_key, now) on a monitor built
\* from an inventory whose block, if any, is of type block_key.
GetDeviceEventData ==
    /\ \E type_key \in ControlType \cup PreferenceType, block_key \in PreferenceType :
        \E run \in get_device_event_data_runs(
                       influx, DeviceData(block_key, schedules), type_key, now) :
            coreOut' = [op |-> "get_device_event_data", type_key |-> type_key,
                        block_key |-> block_key, device |-> run.device,
                        asked |-> run.asked, result |-> run.data]
    /\ UNCHANGED <<now, influx, redis, started, cronDone, unpublished>>

NextMonitor ==
    GetDeviceEventData /\ UNCHANGED <<eventVars, weeklyVars, forecastVars, blackoutVars, engineVars, busVars, haVars, mirrorVars>>

SpecMonitor == InitMonitor /\ [][NextMonitor]_vars

\* ---- get_device_event_data_with_changed_flag as a function ----------------
\* The control records a pass may find: dispatches of 0 and of 18, at the
\* first two seconds.
ChangedFlagPoints == {Point(t, 80, FALSE, v) : t \in 0..1, v \in {0, 18}}

\* The entry event_value_setpoint_<device> a pass may find at second t:
\* absent, or saved by an earlier pass (None, 0 or 18) and not yet expired.
ChangedFlagEntries(t) ==
    {None} \cup {[value |-> v, expires |-> t + ttl] :
                    v \in {None, Json(0), Json(18)},
                    ttl \in 1..(time_step_duration_in_seconds * 2)}

InitChangedFlag ==
    /\ EventIdle /\ ForecastIdle /\ BlackoutIdle /\ EngineIdle /\ BusIdle /\ InterfaceIdle /\ MirrorIdle
    /\ wkOut = [op |-> "init"]
    /\ \E block \in PreferenceBlocks : schedules = _add_schedules(<<>>, block).schedules
    /\ now \in 0..MaxNow
    /\ influx \in {ps \in SUBSET ChangedFlagPoints : Cardinality(ps) <= MaxPoints}
    /\ redis \in ChangedFlagEntries(now)
    /\ started = FALSE
    /\ cronDone = FALSE
    /\ coreOut = [op |-> "init"]
    /\ unpublished = None

\* A call get_device_event_data_with_changed_flag(device, setpoint, now)
GetDeviceEventDataWithChangedFlag ==
    /\ \E o \in get_device_event_data_with_changed_flag(
                     influx, user_device, redis, "setpoint", now) :
        /\ redis' = o.entry
        /\ coreOut' = [op |-> "get_device_event_data_with_changed_flag",
                       before |-> redis, previous |-> o.previous,
                       recomputed |-> o.recomputed, current |-> o.current,
                       changed |-> o.changed]
    /\ UNCHANGED <<now, influx, started, cronDone, unpublished>>

NextChangedFlag ==
    GetDeviceEventDataWithChangedFlag
        /\ UNCHANGED <<eventVars, weeklyVars, forecastVars, blackoutVars, engineVars,
                       busVars, haVars, mirrorVars>>

SpecChangedFlag == InitChangedFlag /\ [][NextChangedFlag]_vars

\* ---- the forecast responder of the data engine ---------------------------
InitForecast ==
    EventIdle /\ WeeklyIdle /\ CoreIdle /\ ForecastIdle /\ BlackoutIdle /\ EngineIdle /\ BusIdle /\ InterfaceIdle /\ MirrorIdle

NextForecast ==
    \/ ForecastTick /\ UNCHANGED <<eventVars, weeklyVars, coreVars, blackoutVars, engineVars, busVars, haVars, mirrorVars>>
    \/ non_controllable_loads_forecast_request
           /\ UNCHANGED <<eventVars, weeklyVars, coreVars, blackoutVars, engineVars, busVars, haVars, mirrorVars>>

SpecForecast == InitForecast /\ [][NextForecast]_vars

\* ---- the blackout detector of the data engine ----------------------------
InitBlackout ==
    /\ EventIdle /\ WeeklyIdle /\ CoreIdle /\ ForecastIdle /\ EngineIdle /\ BusIdle /\ InterfaceIdle /\ MirrorIdle
    /\ bkNow = 0
    /\ series \in GapSeries(MaxGaps)
    /\ bkCache = EmptyBlackoutCache
    /\ rpc = 0
    /\ bkOut = [op |-> "init"]
    /\ detector = HealthyDetector

NextBlackout ==
    \/ BlackoutTick /\ UNCHANGED <<eventVars, weeklyVars, coreVars, forecastVars, engineVars, busVars, haVars, mirrorVars>>
    \/ detect_blackout_info_locally
           /\ UNCHANGED <<eventVars, weeklyVars, coreVars, forecastVars, engineVars, busVars, haVars, mirrorVars>>
    \/ _make_rpc_call
           /\ UNCHANGED <<eventVars, weeklyVars, coreVars, forecastVars, engineVars, busOut, haVars, mirrorVars>>

SpecBlackout == InitBlackout /\ [][NextBlackout]_vars

\* ---- the Core API process after a direct setpoint ------------------------
\* The process with the direct-setpoint endpoint as its only writer, on a
\* clock that runs for three schedule intervals.
NextOverride ==
    \/ ClockTick(MaxOverrideNow) /\ UNCHANGED <<eventVars, weeklyVars, forecastVars, blackoutVars, engineVars, busVars, haVars, mirrorVars>>
    \/ Startup /\ UNCHANGED <<eventVars, weeklyVars, forecastVars, blackoutVars, engineVars, busVars, haVars, mirrorVars>>
    \/ CronPass /\ UNCHANGED <<eventVars, weeklyVars, forecastVars, blackoutVars, engineVars, busVars, haVars, mirrorVars>>
    \/ set_device_id_setpoint /\ UNCHANGED <<eventVars, weeklyVars, forecastVars, blackoutVars, engineVars, busVars, haVars, mirrorVars>>

SpecOverride == Init /\ [][NextOverride]_vars

\* ---- the blackout detector when a read fails ------------------------------
\* The detector starts on a series that ends with one gap, or on a read
\* without rows, and with any set of failing cache reads.
InitDetectorFaults ==
    /\ EventIdle /\ WeeklyIdle /\ CoreIdle /\ ForecastIdle /\ EngineIdle /\ BusIdle /\ InterfaceIdle /\ MirrorIdle
    /\ bkNow = 0
    /\ bkCache = EmptyBlackoutCache
    /\ rpc = 0
    /\ bkOut = [op |-> "init"]
    /\ \E rows \in BOOLEAN, failing \in SUBSET DetectorReads :
          detector = [HealthyDetector EXCEPT !.rows = rows, !.failing = failing]
    /\ IF detector.rows THEN series \in {g \in GapSeries(1) : Len(g) = 1}
       ELSE series = <<>>

SpecDetectorFaults == InitDetectorFaults /\ [][NextBlackout]_vars

\* ---- the cloud mirror ------------------------------------------------------
InitMirror ==
    /\ EventIdle /\ WeeklyIdle /\ CoreIdle /\ ForecastIdle /\ BlackoutIdle
    /\ EngineIdle /\ BusIdle /\ InterfaceIdle /\ MirrorIdle

NextMirror ==
    SyncAllMeasurements
        /\ UNCHANGED <<eventVars, weeklyVars, coreVars, forecastVars, blackoutVars,
                       engineVars, busVars, haVars>>

SpecMirror == InitMirror /\ [][NextMirror]_vars

\* ---- the request and publish calls on the message bus --------------------
\* The detector starts on a series that ends with one gap.
InitBus ==
    /\ EventIdle /\ WeeklyIdle /\ CoreIdle /\ ForecastIdle /\ EngineIdle /\ BusIdle /\ InterfaceIdle /\ MirrorIdle
    /\ bkNow = 0
    /\ series \in {g \in GapSeries(1) : Len(g) = 1}
    /\ bkCache = EmptyBlackoutCache
    /\ rpc = 0
    /\ bkOut = [op |-> "init"]
    /\ detector = HealthyDetector

\* The variables no bus call touches.
OutsideBus == <<eventVars, weeklyVars, coreVars, forecastVars, engineVars, haVars, mirrorVars>>

NextBus ==
    \/ _send_request /\ UNCHANGED <<OutsideBus, blackoutVars>>
    \/ _publish /\ UNCHANGED <<OutsideBus, blackoutVars>>
    \/ load_ec_non_controllable_loads_forecast /\ UNCHANGED <<OutsideBus, blackoutVars>>
    \/ publish /\ UNCHANGED <<OutsideBus, blackoutVars>>
    \/ BlackoutTick /\ UNCHANGED <<OutsideBus, busVars>>
    \/ detect_blackout_info_locally /\ UNCHANGED <<OutsideBus, busVars>>
    \/ _make_rpc_call /\ UNCHANGED <<OutsideBus, busOut>>

SpecBus == InitBus /\ [][NextBus]_vars

\* ---- the home-automation adapter ------------------------------------------
InitInterface ==
    /\ EventIdle /\ WeeklyIdle /\ CoreIdle /\ ForecastIdle /\ BlackoutIdle
    /\ EngineIdle /\ BusIdle /\ InterfaceIdle /\ MirrorIdle

NextInterface ==
    HomeAssistantDeviceInterface_set
        /\ UNCHANGED <<eventVars, weeklyVars, coreVars, forecastVars, blackoutVars,
                       engineVars, busVars, mirrorVars>>

SpecInterface == InitInterface /\ [][NextInterface]_vars

\* ---- the data engine process (data_engine/app.py) -------------------------
\* The coroutines the process defines for its event loop.
EngineTasks == {"broker_events_app", "blackout_detection", "_make_rpc_call"}

\* The coroutines run_tasks hands to asyncio.gather.
run_tasks == {"broker_events_app"}

InitEngine ==
    /\ EventIdle /\ WeeklyIdle /\ CoreIdle /\ ForecastIdle /\ BusIdle /\ InterfaceIdle /\ MirrorIdle
    /\ bkNow = 0
    /\ series \in {g \in GapSeries(1) : Len(g) = 1}
    /\ bkCache = EmptyBlackoutCache
    /\ rpc = 0
    /\ bkOut = [op |-> "init"]
    /\ detector = HealthyDetector
    /\ EngineIdle

\* main(): starts the scheduler, adds the hourly mirror job with
\* next_run_time = now, builds the broker application and runs run_tasks.
data_engine_main ==
    /\ engine.pc = "init"
    /\ engine' = [engine EXCEPT !.pc = "serving", !.tasks = run_tasks,
                                !.mirror_due = TRUE, !.ran = "main"]

\* One tick of the process clock: a sleeping task gets closer to waking,
\* and the mirror job falls due once an hour after its first run time.
EngineTick ==
    /\ engine.pc = "serving"
    /\ engine' = [engine EXCEPT
                     !.clock = (engine.clock + 1) % HourTicks,
                     !.mirror_due = engine.mirror_due \/ (engine.clock + 1) % HourTicks = 0,
                     !.sleep = IF engine.sleep > 0 THEN engine.sleep - 1 ELSE 0,
                     !.ran = "tick"]

\* start_influx_mirror(): the scheduler runs the job that is due.
start_influx_mirror ==
    /\ engine.pc = "serving"
    /\ engine.mirror_due
    /\ engine' = [engine EXCEPT !.mirror_due = FALSE, !.ran = "start_influx_mirror"]

\* The event loop runs one step of a task it holds: a coroutine that
\* asyncio.gather was given, or an RPC task that a poll created.
\* blackout_detection polls once and sleeps; the broker application hands
\* one forecast request to its subscriber.
RunTask(task) ==
    /\ engine.pc = "serving"
    /\ task \in engine.tasks \cup (IF rpc > 0 THEN {"_make_rpc_call"} ELSE {})
    /\ engine' = [engine EXCEPT
                     !.sleep = IF task = "blackout_detection" THEN SleepTicks ELSE @,
                     !.ran = task]
    /\ CASE task = "blackout_detection" ->
              /\ engine.sleep = 0
              /\ detect_blackout_info_locally
              /\ UNCHANGED <<forecastVars, busVars, haVars, mirrorVars>>
         [] task = "_make_rpc_call" ->
              /\ _make_rpc_call
              /\ UNCHANGED <<forecastVars, busOut, haVars, mirrorVars>>
         [] OTHER ->
              /\ non_controllable_loads_forecast_request
              /\ UNCHANGED <<blackoutVars, busVars, haVars, mirrorVars>>

\* The variables of the components that are not part of the data engine.
OutsideEngine == <<eventVars, weeklyVars, coreVars, haVars, mirrorVars>>

EngineMain == data_engine_main /\ UNCHANGED <<OutsideEngine, forecastVars, blackoutVars, busVars>>

EngineClock == EngineTick /\ UNCHANGED <<OutsideEngine, forecastVars, blackoutVars, busVars>>

EngineMirrorJob == start_influx_mirror /\ UNCHANGED <<OutsideEngine, forecastVars, blackoutVars, busVars>>

EngineTask(task) == RunTask(task) /\ UNCHANGED OutsideEngine

NextEngine ==
    \/ EngineMain
    \/ EngineClock
    \/ EngineMirrorJob
    \/ \E task \in EngineTasks : EngineTask(task)

\* main() runs, the clock advances, the scheduler thread runs a due job and
\* the event loop does not starve a task it was given.
SpecEngine ==
    /\ InitEngine
    /\ [][NextEngine]_vars
    /\ WF_vars(EngineMain)
    /\ WF_vars(EngineClock)
    /\ WF_vars(EngineMirrorJob)
    /\ \A task \in EngineTasks : WF_vars(EngineTask(task))

(***************************************************************************)
(* Properties of WeeklyScheduleEvent and WeeklyRecurringScheduler          *)
(***************************************************************************)
\* The registered events whose day set holds `day`, as a set.
EventsOn(day) ==
    {e \in {get_events(schedules)[i] : i \in 1..Len(get_events(schedules))} :
        day \in e.days}

\* The last call was get_event; its weekday and time of day.
Queried == wkOut.op = "get_event"
QueryDay == WeekdayNames[wkOut.weekday + 1]
PreviousDay == WeekdayNames[((wkOut.weekday + 6) % 7) + 1]

\* The query precedes every event of its weekday, and there is one.
BeforeAllEvents ==
    /\ EventsOn(QueryDay) # {}
    /\ \A e \in EventsOn(QueryDay) : TimeLess(wkOut.time, e.time)

\* C4: when some event valid on the query's weekday has a time of day at or
\* before the query's, get_event returns a valid event whose time of day is
\* the greatest of those at or before the query, whatever the order of the
\* schedules and of the events inside them.
C4_MostRecentEvent ==
    (Queried /\ \E e \in EventsOn(QueryDay) : TimeLE(e.time, wkOut.time))
    => /\ wkOut.result \in EventsOn(QueryDay)
       /\ TimeLE(wkOut.result.time, wkOut.time)
       /\ \A e \in EventsOn(QueryDay) :
              TimeLE(e.time, wkOut.time) => TimeLE(e.time, wkOut.result.time)

\* C5: a query that precedes every event of its weekday returns the valid
\* event with the greatest time of day; a weekday without events returns None.
C5_FallbackLatest ==
    Queried =>
        /\ BeforeAllEvents =>
              /\ wkOut.result \in EventsOn(QueryDay)
              /\ \A e \in EventsOn(QueryDay) : TimeLE(e.time, wkOut.result.time)
        /\ EventsOn(QueryDay) = {} => wkOut.result = None

C5_Witness ==
    /\ Queried
    /\ BeforeAllEvents
    /\ \E e1, e2 \in EventsOn(QueryDay) : TimeLess(e1.time, e2.time)
    /\ wkOut.result # None

\* C6: a query that precedes every event of its weekday returns the value of
\* the last event of the previous calendar day (when that day has events).
C6_CarryOver ==
    (Queried /\ BeforeAllEvents /\ EventsOn(PreviousDay) # {})
    => \E last \in EventsOn(PreviousDay) :
           /\ \A e \in EventsOn(PreviousDay) : TimeLE(e.time, last.time)
           /\ wkOut.result # None
           /\ wkOut.result.data = last.data

\* C7: the event get_event returns, if any, has the query's weekday in its
\* day set.
C7_WeekdayIsolation ==
    (Queried /\ wkOut.result # None) => QueryDay \in wkOut.result.days

C7_Witness ==
    /\ Queried
    /\ Len(schedules) = 2
    /\ QueryDay = "SATURDAY"
    /\ wkOut.result # None
    /\ \E e \in EventsOn("MONDAY") : TimeLE(e.time, wkOut.time)

\* C8: a call of _add_schedules whose input holds an event that shares a day
\* and the time of day with a registered event raises and leaves the event
\* list as it was before the call.
C8_ConflictRejection ==
    [][(wkOut'.op = "_add_schedules" /\ wkOut'.conflict)
        => (wkOut'.raised /\ get_events(schedules') = get_events(schedules))]_vars

\* C9: the event list never holds two distinct events that share a day and
\* have the same time of day.
C9_NoSharedDayAndTime ==
    LET evs == get_events(schedules) IN
    \A i, j \in 1..Len(evs) :
        i # j => ~(evs[i].days \cap evs[j].days # {} /\ evs[i].time = evs[j].time)

\* C10: a constructed event's time has second 0 and microsecond 0 and the
\* hour and minute of the input; a time already at minute precision is kept.
C10_TimeTruncation ==
    event # None =>
        /\ event.made.time.second = 0
        /\ event.made.time.microsecond = 0
        /\ event.made.time.hour = event.time.hour
        /\ event.made.time.minute = event.time.minute
        /\ (event.time.second = 0 /\ event.time.microsecond = 0)
               => event.made.time = event.time

C10_Witness ==
    /\ event # None
    /\ event.time.second > 0
    /\ event.time.microsecond > 0
    /\ event.time.hour > 0
    /\ event.time.minute > 0


(***************************************************************************)
(* Claims on the device scheduler, the monitor and the reconciliation pass *)
(***************************************************************************)
\* The control records inside the lookback window [T - schedule_interval, T]
\* of the query that was just answered.
LookbackWindow ==
    {p \in influx :
        /\ coreOut.time_target - time_step_duration_in_seconds <= p.time
        /\ p.time <= coreOut.time_target}

\* C1: DeviceScheduler.get_event_data returns the value of a record of the
\* lookback window that no other record of the window beats, where a record
\* beats another when its priority is higher, or its priority is equal and
\* its timestamp is later: priority decides before recency.
C1_PriorityBeatsRecency ==
    (coreOut.op = "get_event_data" /\ LookbackWindow # {}) =>
        /\ coreOut.result # None
        /\ \E p \in LookbackWindow :
            /\ coreOut.result.data = p.value
            /\ \A q \in LookbackWindow :
                /\ q.priority <= p.priority
                /\ q.priority = p.priority => q.time <= p.time

\* A query whose window holds a lower-priority record with a later timestamp
\* and another value, answered with the higher-priority record's value.
C1_Witness ==
    /\ coreOut.op = "get_event_data"
    /\ \E p, q \in LookbackWindow :
        /\ p.priority > q.priority
        /\ p.time < q.time
        /\ p.value # q.value
        /\ coreOut.result # None
        /\ coreOut.result.data = p.value

\* C2: get_device_event_data_with_changed_flag returns a false changed flag
\* whenever the current value is from direct control, whatever the previous
\* value; for a current value not from direct control the flag is true
\* exactly when the previous and the current values differ.
C2_ChangedFlag ==
    coreOut.op = "update_setpoints" =>
        IF FromDirectControlOf(coreOut.current)
        THEN coreOut.changed = FALSE
        ELSE coreOut.changed = (coreOut.previous # DataOf(coreOut.current))

\* A pass that resolves a direct-control value differing from the previous
\* value and reports it unchanged.
C2_Witness ==
    /\ coreOut.op = "update_setpoints"
    /\ FromDirectControlOf(coreOut.current)
    /\ coreOut.previous # None
    /\ coreOut.previous # DataOf(coreOut.current)
    /\ coreOut.changed = FALSE

\* C3 as stated: a pass publishes if and only if a value resolves, and it
\* changed since the previous minute or this is the startup pass, and it did
\* not originate from direct control; so no pass publishes a direct-control
\* value.
C3_PublishUnlessDirectControl ==
    coreOut.op = "update_setpoints" =>
        (coreOut.published <=>
            /\ coreOut.current # None
            /\ (coreOut.previous # DataOf(coreOut.current)
                \/ coreOut.system_just_started)
            /\ ~FromDirectControlOf(coreOut.current))

\* C3 amended: a pass publishes if and only if a value resolves and either
\* this is the startup pass, or the value changed since the previous minute
\* and did not originate from direct control; so a pass after startup never
\* publishes a direct-control value.
C3_PublishOnStartupOrChange ==
    coreOut.op = "update_setpoints" =>
        /\ coreOut.published <=>
            /\ coreOut.current # None
            /\ \/ coreOut.system_just_started
               \/ /\ coreOut.previous # DataOf(coreOut.current)
                  /\ ~FromDirectControlOf(coreOut.current)
        /\ (coreOut.published /\ ~coreOut.system_just_started) =>
               ~FromDirectControlOf(coreOut.current)

\* A startup pass that publishes a direct-control value.
C3_Witness ==
    /\ coreOut.op = "update_setpoints"
    /\ coreOut.system_just_started
    /\ FromDirectControlOf(coreOut.current)
    /\ coreOut.published


(***************************************************************************)
(* Claims on the forecast responder                                        *)
(***************************************************************************)
\* The live day_ahead_forecast_cache entry the last request found.
CachedBefore == safe_read_from_redis(fcOut.before, fcNow)

\* C11: a forecast request whose start, stop and interval all equal those of
\* the live cache entry is answered with that entry, with no computation and
\* no cache write; a request that differs from the live entry in interval
\* only is computed and its response overwrites the cache entry.
C11_CacheHitAndMiss ==
    (fcOut.op = "request" /\ CachedBefore # None) =>
        /\ (/\ fcOut.params.start = CachedBefore.start
            /\ fcOut.params.stop = CachedBefore.stop
            /\ fcOut.params.interval = CachedBefore.interval) =>
               /\ fcOut.reply = CachedBefore
               /\ ~fcOut.computed /\ ~fcOut.saved
               /\ fcCache = fcOut.before
        /\ (/\ fcOut.params.start = CachedBefore.start
            /\ fcOut.params.stop = CachedBefore.stop
            /\ fcOut.params.interval # CachedBefore.interval) =>
               /\ fcOut.computed /\ fcOut.saved
               /\ fcOut.reply.interval = fcOut.params.interval
               /\ fcOut.reply.forecast.history_at = fcNow
               /\ safe_read_from_redis(fcCache, fcNow) = fcOut.reply

\* A request answered from an entry computed at an earlier tick.
C11_Witness ==
    /\ fcOut.op = "request"
    /\ CachedBefore # None
    /\ fcOut.reply = CachedBefore
    /\ fcOut.reply.forecast.history_at < fcNow
    /\ ~fcOut.computed

LiveBefore(key) == safe_read_from_redis(bkOut.before[key], BlackoutSeconds(bkNow))

\* The last poll ran with no grap_info in the cache, on a series with gaps.
PolledWithoutGrap ==
    /\ bkOut.op = "detect"
    /\ LiveBefore("grap_info") = None
    /\ series # <<>>

\* The largest gap of the series, in thousandths of a minute.
LargestGap == CHOOSE g \in {series[i] : i \in 1..Len(series)} :
                  \A i \in 1..Len(series) : series[i] <= g

\* The most recent gap longer than 1 minute, 0 when there is none.
LastLongGap ==
    LET long == {i \in 1..Len(series) : series[i] > 1000} IN
    IF long = {} THEN 0
    ELSE series[CHOOSE i \in long : \A j \in long : j <= i]

C14_OneCallPerEpisode ==
    (/\ bkOut.op = "detect"
     /\ \/ LiveBefore("grap_cold_pickup_call") # None
        \/ LiveBefore("grap_info") # None) =>
        ~bkOut.called

\* A poll that detects a blackout while grap_cold_pickup_call is live and
\* starts no RPC.
C14_Witness ==
    /\ bkOut.op = "detect"
    /\ LiveBefore("grap_cold_pickup_call") # None
    /\ bkOut.saved
    /\ ~bkOut.called

\* C15: a poll that finds grap_info in the cache reads no telemetry, leaves
\* blackout_info and grap_cold_pickup_call as they were and starts no RPC.
C15_ActiveEpisodeGuard ==
    (bkOut.op = "detect" /\ LiveBefore("grap_info") # None) =>
        /\ ~bkOut.read
        /\ ~bkOut.saved
        /\ ~bkOut.called
        /\ bkCache = bkOut.before

\* A poll during an episode, on a series whose last gap is a blackout, once
\* the first blackout_info has expired.
C15_Witness ==
    /\ bkOut.op = "detect"
    /\ LiveBefore("grap_info") # None
    /\ around2(LastLongGap) > BlackoutMinutes * 100
    /\ bkCache.blackout_info = None
    /\ ~bkOut.read


(***************************************************************************)
(* Claims on the Core API process after an interrupted request             *)
(***************************************************************************)
\* C16: after the process stopped between the write of a direct setpoint
\* and its publication, a reconciliation pass publishes that setpoint at
\* most one reconciliation interval after the write: no pass ends later
\* than that with the setpoint still unpublished.
C16_PublishedAfterCrash ==
    (coreOut.op = "update_setpoints" /\ unpublished # None) =>
        now <= unpublished.time + time_step_duration_in_seconds


\* C17: a schedule request with a priority below 0 or above 100, and a
\* preferences request with a sampling interval below 1 or above 60 minutes,
\* are answered 400 without any access to the cache, the time-series
\* database or a scheduler.
C17_ValidationBeforeAccess ==
    /\ (/\ coreOut.op = "set_device_dispatches_schedule"
        /\ (coreOut.priority < 0 \/ coreOut.priority > 100)) =>
           coreOut.status = 400 /\ coreOut.accesses = {}
    /\ (/\ coreOut.op = "request_preferences_data"
        /\ (coreOut.sampling_in_minutes < 1 \/ coreOut.sampling_in_minutes > 60)) =>
           coreOut.status = 400 /\ coreOut.accesses = {}

\* A schedule request with priority 101, rejected while records exist.
C17_Witness ==
    /\ coreOut.op = "set_device_dispatches_schedule"
    /\ coreOut.priority > 100
    /\ coreOut.status = 400
    /\ influx # {}


(***************************************************************************)
(* Claims on SchedulerMonitor.get_device_event_data                        *)
(***************************************************************************)
\* What the weekly scheduler of preference type k answers for the device at
\* the timestamp of the last call, None when the device has no such block.
WeeklyAnswer(k) ==
    IF k = coreOut.block_key /\ schedules # <<>>
    THEN Weekly_get_event_data(schedules, LocalTimestamp(now))
    ELSE None

\* C18: for setpoint, occupation and state_of_charge, when the device
\* scheduler returns nothing the result is what the weekly scheduler of the
\* mapped preference type returns, and when it returns data that data is
\* the result and no preference scheduler is asked; power, battery_power and
\* sp_power never fall back; a preference type only asks its own scheduler.
C18_PreferenceFallback ==
    coreOut.op = "get_device_event_data" =>
        LET type_key == coreOut.type_key
            mapped == CASE type_key = "setpoint" -> "preferences_setpoint"
                        [] type_key = "occupation" -> "preferences_occupancy"
                        [] type_key = "state_of_charge" -> "preferences_soc"
                        [] OTHER -> ""
        IN CASE type_key \in {"setpoint", "occupation", "state_of_charge"} ->
                  IF coreOut.device = None
                  THEN /\ coreOut.result = WeeklyAnswer(mapped)
                       /\ coreOut.asked = <<type_key, mapped>>
                  ELSE /\ coreOut.result = coreOut.device
                       /\ coreOut.asked = <<type_key>>
             [] type_key \in {"power", "battery_power", "sp_power"} ->
                  /\ coreOut.result = coreOut.device
                  /\ coreOut.asked = <<type_key>>
             [] OTHER ->
                  /\ coreOut.result = WeeklyAnswer(type_key)
                  /\ coreOut.asked = <<type_key>>

\* A call for occupation that finds no control record and returns the data
\* of the device's preferences_occupancy block.
C18_Witness ==
    /\ coreOut.op = "get_device_event_data"
    /\ coreOut.type_key = "occupation"
    /\ coreOut.device = None
    /\ coreOut.result # None
    /\ coreOut.result = WeeklyAnswer("preferences_occupancy")


(***************************************************************************)
(* Claims on the data engine process                                       *)
(***************************************************************************)
\* C19: once main() of the data engine has started, the blackout-detection
\* loop runs: detect_blackout_info_locally is invoked again and again for
\* the lifetime of the process.
C19_BlackoutDetectionRuns ==
    (engine.pc = "serving") ~> (engine.ran = "blackout_detection")


(***************************************************************************)
(* Claims on the message-bus clients                                       *)
(***************************************************************************)
\* C20: after a request or publish call on the message bus has returned or
\* raised, at any of the call sites (Core API realtime and forecast
\* queries, blackout detector RPC, Grid Services publish helper), the
\* client that made the call is not connected.
C20_ClosedAfterEveryCall ==
    /\ busOut.op # "init" => ~bus[busOut.client]
    /\ bkOut.op = "rpc" => ~bus["detect_blackout"]


(***************************************************************************)
(* Claims on failure propagation in the Core API                           *)
(***************************************************************************)
\* C21: when the time-series write of a dispatch fails inside
\* save_schedule, the direct-setpoint endpoint does not publish the set
\* command and does not answer 200, and the bulk-schedule endpoint does not
\* answer 200.
C21_WriteFailureReachesCaller ==
    (/\ coreOut.op \in {"set_device_id_setpoint", "set_device_dispatches_schedule"}
     /\ coreOut.write = "write failed")
        => /\ coreOut.status # 200
           /\ coreOut.op = "set_device_id_setpoint" => ~coreOut.published


(***************************************************************************)
(* Claims on the home-automation adapter                                   *)
(***************************************************************************)
\* The service, event and entity of the last set() call are the ones the
\* device type asks for: turn_on exactly when the action is truthy for the
\* switches, set_temperature with the action for space heating, recharge
\* exactly when the action is not negative for the storage.
SetServiceAndEntity ==
    LET action == TenthsOf(haOut.action) IN
    CASE haOut.type \in {"water_heater", "on_off_ev_charger"} ->
           /\ haOut.url_suffix = (IF action # 0 THEN "services/switch/turn_on"
                                  ELSE "services/switch/turn_off")
           /\ haOut.json = [entity_id |-> <<"switch", DeviceId>>]
      [] haOut.type = "space_heating" ->
           /\ haOut.url_suffix = "services/climate/set_temperature"
           /\ haOut.json = [entity_id |-> <<"climate", DeviceId>>,
                            temperature |-> haOut.action]
      [] OTHER ->
           /\ haOut.url_suffix = (IF action >= 0 THEN "events/set_recharge_battery_power"
                                  ELSE "events/set_discharge_battery_power")
           /\ DOMAIN haOut.json = {"power_value"}

\* C22 as stated: the mapping above, the storage body carries
\* power_value = abs(action), and set raises on every non-2xx response.
C22_SetMapping ==
    haOut.op = "set" =>
        /\ SetServiceAndEntity
        /\ haOut.type = "electric_storage" =>
               haOut.json.power_value * 10 = abs(TenthsOf(haOut.action))
        /\ haOut.raised <=> ~(200 <= haOut.status_code /\ haOut.status_code < 300)

\* C22 as the code has it: the storage body carries the whole part of
\* abs(action), and set raises exactly on a 4xx or 5xx response.
C22_SetMappingWholePower ==
    haOut.op = "set" =>
        /\ SetServiceAndEntity
        /\ haOut.type = "electric_storage" =>
               haOut.json.power_value = abs(TenthsOf(haOut.action)) \div 10
        /\ haOut.raised <=> (400 <= haOut.status_code /\ haOut.status_code <= 599)

\* A discharge request of 2.7: the discharge event with power_value 2.
C22_Witness ==
    /\ haOut.op = "set"
    /\ haOut.type = "electric_storage"
    /\ haOut.action = [tenths |-> -27]
    /\ haOut.url_suffix = "events/set_discharge_battery_power"
    /\ haOut.json = [power_value |-> 2]
    /\ ~haOut.raised


(***************************************************************************)
(* Claims on the previous value of the changed flag                        *)
(***************************************************************************)
\* C23: whenever a live cache entry exists for the device's event value,
\* the previous value of the comparison is the cached value, 0 included;
\* it is recomputed from the schedulers only when the entry is absent or
\* expired.
C23_PreviousFromCache ==
    coreOut.op = "get_device_event_data_with_changed_flag" =>
        IF coreOut.before # None /\ now < coreOut.before.expires
        THEN coreOut.previous = coreOut.before.value
        ELSE coreOut.recomputed


(***************************************************************************)
(* Claims on the lookback window of DeviceScheduler                        *)
(***************************************************************************)
\* The control records whose timestamp lies in [T - schedule interval, T].
InLookbackWindow(time_target) ==
    {p \in influx : /\ time_target - time_step_duration_in_seconds <= p.time
                    /\ p.time <= time_target}

\* C24: get_event_data at time T returns a record only if the record's
\* timestamp lies in [T - schedule interval, T]; older records and records
\* later than T are never returned whatever their priority, and the result
\* is None when no record lies in the window.
C24_LookbackWindow ==
    coreOut.op = "get_event_data" =>
        IF InLookbackWindow(coreOut.time_target) = {}
        THEN coreOut.result = None
        ELSE \E p \in InLookbackWindow(coreOut.time_target) :
                 coreOut.result = ScheduleEventData(<<p.time>>, p.value,
                                                    p.from_direct_control = "1")

\* A call that returns a record of the window although a record of higher
\* priority is older than one schedule interval.
C24_Witness ==
    /\ coreOut.op = "get_event_data"
    /\ coreOut.result # None
    /\ \E q \in influx :
           /\ q.time < coreOut.time_target - time_step_duration_in_seconds
           /\ \A p \in InLookbackWindow(coreOut.time_target) : q.priority > p.priority


\* A 24-hour scan finds a gap that counts as a blackout.
BlackoutInSeries ==
    LET interruption == _detect_last_data_interruption(series, 1)
    IN interruption # None /\ interruption.duration > BlackoutMinutes * 100

\* The poll that bkOut describes found neither an active GRAP nor an earlier
\* call in the cache.
NothingCachedBefore ==
    /\ safe_read_from_redis(bkOut.before.grap_info, BlackoutSeconds(bkNow)) = None
    /\ safe_read_from_redis(bkOut.before.grap_cold_pickup_call, BlackoutSeconds(bkNow)) = None

\* C25: a poll whose 24-hour read of net_power returns no rows does not
\* raise, writes no blackout_info and issues no RPC, and the polling loop
\* goes on to its next iteration.
C25_EmptyTelemetryCompletes ==
    (/\ bkOut.op = "detect"
     /\ ~detector.rows
     /\ "grap_info" \notin detector.failing
     /\ NothingCachedBefore)
        => (/\ ~bkOut.raised
            /\ ~bkOut.saved
            /\ ~bkOut.called
            /\ detector.loop = "running")

\* C26: a poll that detects a blackout of more than 30 minutes while the
\* read of the GRAP power limit, of grap_info or of grap_cold_pickup_call
\* fails still issues the cold-load-pickup RPC and does not end in an
\* exception.
C26_BestEffortCall ==
    (/\ bkOut.op = "detect"
     /\ detector.rows
     /\ detector.failing # {}
     /\ BlackoutInSeries
     /\ NothingCachedBefore)
        => (bkOut.called /\ ~bkOut.raised)

\* C29: at most one cold-load-pickup RPC is outstanding at any time: a poll
\* between the creation of an RPC task and the saving of its reply creates
\* no second task.
C29_SingleInFlight == rpc <= 1

\* C30: a gap of the telemetry starts at most one episode while it stays in
\* the 24-hour scan: once the reply of an RPC for it has been saved, no
\* later poll starts another RPC, also after grap_info and
\* grap_cold_pickup_call have expired.
C30_OneEpisodePerGap ==
    (bkOut.op = "detect" /\ bkOut.called) => ~detector.handled

\* C27: in every pass and for every order of the measurements, a measurement
\* other than historic is read from 5 hours before now to 130 hours after
\* now and historic from 20 days before now, and every measurement of the
\* pass is processed whatever happened to the ones before it.
C27_MirrorReadWindow ==
    mirrorOut.op = "sync_all_measurements" =>
        /\ Len(mirrorOut.log) = Len(mirrorOut.measurements)
        /\ \A i \in DOMAIN mirrorOut.log :
              LET step == mirrorOut.log[i] IN
              /\ step.measurement = mirrorOut.measurements[i]
              /\ step.read =>
                    /\ step.stop = mirrorOut.now + timedelta(0, 130)
                    /\ step.start = IF step.measurement = "historic"
                                    THEN mirrorOut.now - timedelta(20, 0)
                                    ELSE mirrorOut.now - timedelta(0, 5)

\* The weekly preference of the device at time t.
WeeklyPreference(t) == PreferenceEventData(user_device, "preferences_setpoint", t)

\* C28: after the direct-setpoint endpoint applied a value other than the
\* one the weekly preference schedule resolves to, and with no other write,
\* no pass of the reconciliation loop publishes a set command for the device
\* before the weekly schedule reaches its next event, also once the
\* direct-control record is older than one schedule interval.
C28_OverridePersists ==
    (/\ coreOut.op = "update_setpoints"
     /\ ~coreOut.system_just_started
     /\ \E r \in influx :
           /\ influx = {r}
           /\ r.from_direct_control = "1"
           /\ r.time < now
           /\ WeeklyPreference(now) # None
           /\ WeeklyPreference(now).data # r.value
           /\ \A t \in r.time..now : WeeklyPreference(t) = WeeklyPreference(now))
        => ~coreOut.published

=========================================================================
